---------------------------- MODULE Spec2Model ----------------------------
(***************************************************************************)
(* A model of src/src/prefect/utilities/settings.py: the tree of settings  *)
(* groups (pydantic BaseSettings subclasses), their resolution from        *)
(* constructor overrides, environment variables and declared defaults, the *)
(* module-level singletons SharedSettings and settings, and the NOTSET     *)
(* sentinel with its override-merge helper drop_unset.                     *)
(*                                                                         *)
(* Python values are pairs <<type name, textual form>>; the environment is *)
(* a mapping from the names of the variables that are set to their raw     *)
(* strings, as os.environ is.                                              *)
(***************************************************************************)
EXTENDS Naturals, Sequences, FiniteSets, TLC

VARIABLES pc, env, envSets, SharedSettings, classDefaults, settings,
          settingsBuilds, last, lastCall, lastOp, result,
          dropIn, dropOut, eqArg, eqRes

vars == <<pc, env, envSets, SharedSettings, classDefaults, settings,
          settingsBuilds, last, lastCall, lastOp, result,
          dropIn, dropOut, eqArg, eqRes>>

moduleVars == <<pc, env, envSets, SharedSettings, classDefaults, settings,
                settingsBuilds, last, lastCall>>

helperVars == <<dropIn, dropOut, eqArg, eqRes>>

(***************************************************************************)
(* Bounds of the model.                                                    *)
(***************************************************************************)
\* how many times the process environment is changed in one behaviour
MaxEnvSets == 1

(***************************************************************************)
(* Python values.                                                          *)
(***************************************************************************)
None == <<"NoneType", "None">>
PyTrue == <<"bool", "True">>
PyFalse == <<"bool", "False">>
PyStr(s) == <<"str", s>>
PyInt(s) == <<"int", s>>
PyFloat(s) == <<"float", s>>
PyPath(s) == <<"Path", s>>

isinstance(o, t) == o[1] = t

\* NOTSET = NotSetType(), and a second object a caller makes with NotSetType()
NOTSET == <<"NotSetType", "NOTSET">>
OtherNotSet == <<"NotSetType", "another instance">>

\* the outcome of a validator that rejected its input
Invalid(t) == <<"ValidationError", t>>
IsError(v) == v[1] = "ValidationError"

(***************************************************************************)
(* Type coercion: what pydantic's validators make of a raw string (an      *)
(* environment value) and of a Python value (an override or a default).    *)
(***************************************************************************)
BOOL_TRUE == {"1", "on", "t", "true", "y", "yes"}
BOOL_FALSE == {"0", "off", "f", "false", "n", "no"}

\* the strings int() accepts, among the strings of the model
IntLiterals == {"0", "1", "5", "10", "30", "60", "100", "200", "5000"}

\* float(s) of an integer literal prints with a trailing .0
FloatOfInt(s) == s \o ".0"

\* timedelta(seconds = int(s)), printed
TimedeltaOfSeconds(s) ==
    CASE s = "0" -> "0:00:00"
      [] s = "1" -> "0:00:01"
      [] s = "5" -> "0:00:05"
      [] s = "10" -> "0:00:10"
      [] s = "30" -> "0:00:30"
      [] s = "60" -> "0:01:00"
      [] s = "100" -> "0:01:40"
      [] s = "200" -> "0:03:20"
      [] s = "5000" -> "1:23:20"

Parse(t, raw) ==
    CASE t = "bool" ->
            IF raw \in BOOL_TRUE THEN PyTrue
            ELSE IF raw \in BOOL_FALSE THEN PyFalse
            ELSE Invalid(t)
      [] t = "int" ->
            IF raw \in IntLiterals THEN PyInt(raw) ELSE Invalid(t)
      [] t \in {"float", "Optional[float]"} ->
            IF raw \in IntLiterals THEN PyFloat(FloatOfInt(raw)) ELSE Invalid(t)
      [] t = "timedelta" ->
            IF raw \in IntLiterals THEN <<"timedelta", TimedeltaOfSeconds(raw)>>
            ELSE Invalid(t)
      [] t \in {"str", "Optional[str]"} -> PyStr(raw)
      [] t = "Path" -> PyPath(raw)
      [] t = "SecretStr" -> <<"SecretStr", raw>>

Validate(t, v) ==
    CASE isinstance(v, "NotSetType") -> Invalid(t)
      [] isinstance(v, "NoneType") ->
            IF t \in {"Optional[float]", "Optional[str]"} THEN None ELSE Invalid(t)
      [] isinstance(v, "str") -> Parse(t, v[2])
      [] isinstance(v, "int") ->
            IF t = "int" THEN v
            ELSE IF t \in {"float", "Optional[float]"} THEN PyFloat(FloatOfInt(v[2]))
            ELSE IF t = "timedelta" THEN <<"timedelta", TimedeltaOfSeconds(v[2])>>
            ELSE IF t \in {"str", "Optional[str]"} THEN PyStr(v[2])
            ELSE Invalid(t)
      [] isinstance(v, "float") ->
            IF t \in {"float", "Optional[float]"} THEN v ELSE Invalid(t)
      [] OTHER -> IF v[1] = t THEN v ELSE Invalid(t)


(***************************************************************************)
(* The declarations of the settings groups.                                *)
(***************************************************************************)
Groups == {"PrefectSettings", "DataLocationSettings", "DatabaseSettings",
           "APISettings", "ServicesSettings", "OrionSettings",
           "LoggingSettings", "Settings"}

\* pydantic's BaseSettings.Config, which a group without a Config of its own
\* keeps: no prefix, mutable, defaults validated like inputs
BaseSettingsConfig == [env_prefix |-> "", frozen |-> FALSE, validate_all |-> TRUE]

PrefectSettingsConfig ==
    [BaseSettingsConfig EXCEPT !.env_prefix = "PREFECT_", !.frozen = TRUE]

Config(g) ==
    CASE g = "PrefectSettings" -> PrefectSettingsConfig
      [] g = "DataLocationSettings" ->
            [BaseSettingsConfig EXCEPT !.env_prefix = "PREFECT_ORION_DATA_",
                                       !.frozen = TRUE]
      [] g = "DatabaseSettings" ->
            [BaseSettingsConfig EXCEPT !.env_prefix = "PREFECT_ORION_DATABASE_",
                                       !.frozen = TRUE]
      [] g = "APISettings" -> BaseSettingsConfig
      [] g = "ServicesSettings" ->
            [BaseSettingsConfig EXCEPT !.env_prefix = "PREFECT_ORION_SERVICES_",
                                       !.frozen = TRUE]
      [] g = "OrionSettings" ->
            [BaseSettingsConfig EXCEPT !.env_prefix = "PREFECT_ORION_",
                                       !.frozen = TRUE]
      [] g = "LoggingSettings" ->
            [BaseSettingsConfig EXCEPT !.env_prefix = "PREFECT_LOGGING_",
                                       !.frozen = TRUE]
      \* class Settings(PrefectSettings) inherits its parent's Config
      [] g = "Settings" -> PrefectSettingsConfig

\* a scalar field with a literal default
Scalar(n, t, d) == [name |-> n, type |-> t, nested |-> FALSE, default |-> d]
\* a scalar field whose default the class body computed from SharedSettings
Derived(n, t) == [name |-> n, type |-> t, nested |-> FALSE,
                  default |-> <<"derived", n>>]
\* a nested group: Field(default_factory = <the group's class>)
Nested(n, g) == [name |-> n, type |-> g, nested |-> TRUE,
                 default |-> <<"default_factory", g>>]

\* the home directory of the process's user, which expanduser() puts for ~
UserHome == "/root"
expanduser(p) == IF p = "~/.prefect" THEN UserHome \o "/.prefect" ELSE p

PrefectSettingsFields ==
    << Scalar("home", "Path", PyPath(expanduser("~/.prefect"))),
       Scalar("debug_mode", "bool", PyFalse),
       Scalar("test_mode", "bool", PyFalse) >>

Fields(g) ==
    CASE g = "PrefectSettings" -> PrefectSettingsFields
      [] g = "DataLocationSettings" ->
            << Scalar("name", "str", PyStr("default")),
               Scalar("scheme", "str", PyStr("file")),
               Scalar("base_path", "str", PyStr("/tmp")) >>
      [] g = "DatabaseSettings" ->
            << Derived("connection_url", "SecretStr"),
               Scalar("echo", "bool", PyFalse),
               Scalar("timeout", "Optional[float]", PyInt("1")),
               Scalar("services_timeout", "Optional[float]", None) >>
      [] g = "APISettings" ->
            << Scalar("default_limit", "int", PyInt("200")),
               Scalar("host", "str", PyStr("127.0.0.1")),
               Scalar("port", "int", PyInt("5000")),
               Scalar("uvicorn_log_level", "str", PyStr("info")) >>
      [] g = "ServicesSettings" ->
            << Scalar("run_in_app", "bool", PyFalse),
               Scalar("scheduler_loop_seconds", "float", PyInt("60")),
               Scalar("scheduler_deployment_batch_size", "int", PyInt("100")),
               Scalar("scheduler_max_runs", "int", PyInt("100")),
               Scalar("scheduler_max_scheduled_time", "timedelta",
                      <<"timedelta", "100 days, 0:00:00">>),
               Scalar("agent_loop_seconds", "float", PyInt("5")),
               Scalar("agent_prefetch_seconds", "int", PyInt("10")) >>
      [] g = "OrionSettings" ->
            << Nested("database", "DatabaseSettings"),
               Nested("data", "DataLocationSettings"),
               Nested("api", "APISettings"),
               Nested("services", "ServicesSettings") >>
      [] g = "LoggingSettings" ->
            << Derived("settings_path", "Path") >>
      \* the fields of PrefectSettings, then its own; a str field declared
      \* with the default None is Optional[str] to pydantic
      [] g = "Settings" ->
            PrefectSettingsFields \o
            << Nested("logging", "LoggingSettings"),
               Nested("orion", "OrionSettings"),
               Scalar("orion_host", "Optional[str]", None) >>

\* the declarations, looked up by class and by field name
FieldTable == [g \in Groups |-> Fields(g)]
FieldNames(g) == {FieldTable[g][i].name : i \in 1..Len(FieldTable[g])}
FieldIndex ==
    [g \in Groups |->
       [n \in FieldNames(g) |->
          CHOOSE i \in 1..Len(FieldTable[g]) : FieldTable[g][i].name = n]]
FieldOf(g, n) == FieldTable[g][FieldIndex[g][n]]
ScalarNames(g) == {n \in FieldNames(g) : ~FieldOf(g, n).nested}
NestedNames(g) == {n \in FieldNames(g) : FieldOf(g, n).nested}

\* str.upper() of a field name
upper(n) ==
    CASE n = "home" -> "HOME"
      [] n = "debug_mode" -> "DEBUG_MODE"
      [] n = "test_mode" -> "TEST_MODE"
      [] n = "name" -> "NAME"
      [] n = "scheme" -> "SCHEME"
      [] n = "base_path" -> "BASE_PATH"
      [] n = "connection_url" -> "CONNECTION_URL"
      [] n = "echo" -> "ECHO"
      [] n = "timeout" -> "TIMEOUT"
      [] n = "services_timeout" -> "SERVICES_TIMEOUT"
      [] n = "default_limit" -> "DEFAULT_LIMIT"
      [] n = "host" -> "HOST"
      [] n = "port" -> "PORT"
      [] n = "uvicorn_log_level" -> "UVICORN_LOG_LEVEL"
      [] n = "run_in_app" -> "RUN_IN_APP"
      [] n = "scheduler_loop_seconds" -> "SCHEDULER_LOOP_SECONDS"
      [] n = "scheduler_deployment_batch_size" -> "SCHEDULER_DEPLOYMENT_BATCH_SIZE"
      [] n = "scheduler_max_runs" -> "SCHEDULER_MAX_RUNS"
      [] n = "scheduler_max_scheduled_time" -> "SCHEDULER_MAX_SCHEDULED_TIME"
      [] n = "agent_loop_seconds" -> "AGENT_LOOP_SECONDS"
      [] n = "agent_prefetch_seconds" -> "AGENT_PREFETCH_SECONDS"
      [] n = "database" -> "DATABASE"
      [] n = "data" -> "DATA"
      [] n = "api" -> "API"
      [] n = "services" -> "SERVICES"
      [] n = "settings_path" -> "SETTINGS_PATH"
      [] n = "logging" -> "LOGGING"
      [] n = "orion" -> "ORION"
      [] n = "orion_host" -> "ORION_HOST"

\* the environment variable of field n of group g
env_key(g, n) == Config(g).env_prefix \o upper(n)

EnvKeyTable == [g \in Groups |-> [n \in FieldNames(g) |-> env_key(g, n)]]

\* os.environ.get(k): <<>> when k is not set, <<raw>> when it is
EnvGet(e, k) == IF k \in DOMAIN e THEN <<e[k]>> ELSE <<>>

(***************************************************************************)
(* Trees of instances: the groups of a tree, read and written by path.     *)
(***************************************************************************)
RECURSIVE PathsOf(_)
\* the groups of the tree of class g, each by the field names leading to it
PathsOf(g) ==
    {<<>>} \cup UNION {{<<n>> \o p : p \in PathsOf(FieldOf(g, n).type)} :
                       n \in NestedNames(g)}
PathTable == [g \in Groups |-> PathsOf(g)]

RECURSIVE ClassAt(_, _)
\* the class of the group at path p of a tree of class g
ClassAt(g, p) ==
    IF p = <<>> THEN g ELSE ClassAt(FieldOf(g, Head(p)).type, Tail(p))

RECURSIVE GetAt(_, _)
GetAt(inst, p) == IF p = <<>> THEN inst ELSE GetAt(inst.vals[Head(p)], Tail(p))

RECURSIVE SetAt(_, _, _, _)
SetAt(inst, p, f, v) ==
    IF p = <<>> THEN [inst EXCEPT !.vals[f] = v]
    ELSE [inst EXCEPT !.vals[Head(p)] = SetAt(@, Tail(p), f, v)]

(***************************************************************************)
(* Defaults the class bodies compute when the module is loaded.            *)
(***************************************************************************)
\* f"sqlite+aiosqlite:////{SharedSettings.home}/orion.db"
DatabaseUrlOf(home) == "sqlite+aiosqlite:////" \o home \o "/orion.db"
\* Path(f"{SharedSettings.home}/logging.yml")
LoggingPathOf(home) == home \o "/logging.yml"

\* the class attributes DatabaseSettings.connection_url and
\* LoggingSettings.settings_path, evaluated once from the instance shared
ClassBodyDefaults(shared) ==
    [connection_url |-> PyStr(DatabaseUrlOf(shared.vals["home"][2])),
     settings_path |-> PyPath(LoggingPathOf(shared.vals["home"][2]))]

NoDefaults == [connection_url |-> None, settings_path |-> None]

\* the declared default of a field, given the class attributes cd
Default(fld, cd) ==
    IF fld.default[1] = "derived" THEN cd[fld.name] ELSE fld.default

(***************************************************************************)
(* Construction of a group: BaseSettings.__init__.                         *)
(***************************************************************************)
NoInstance == [cls |-> "None", vals |-> <<>>]
NoError == [model |-> "", fields |-> {}]
NoKwargs == <<>>
Built(i) == [ok |-> TRUE, inst |-> i, err |-> NoError]
Raised(g, fs) == [ok |-> FALSE, inst |-> NoInstance,
                  err |-> [model |-> g, fields |-> fs]]

\* as ValidateDefault, had the groups not inherited validate_all: the
\* default is stored as declared
ValidateDefault_AsDeclared(g, t, d) == d

\* Config.validate_all: a default goes through the field's validators too
ValidateDefault(g, t, d) == IF Config(g).validate_all THEN Validate(t, d) ELSE d

\* as ResolveScalar, with the environment looked up before the keywords
ResolveScalar_EnvFirst(g, fld, kw, e, cd) ==
    IF EnvGet(e, EnvKeyTable[g][fld.name]) # <<>>
      THEN Parse(fld.type, EnvGet(e, EnvKeyTable[g][fld.name])[1])
      ELSE IF fld.name \in DOMAIN kw
             THEN Validate(fld.type, kw[fld.name])
             ELSE Validate(fld.type, Default(fld, cd))

\* as ResolveScalar, with the default put for an environment value that does
\* not parse
ResolveScalar_Lenient(g, fld, kw, e, cd) ==
    IF fld.name \in DOMAIN kw
      THEN Validate(fld.type, kw[fld.name])
      ELSE IF /\ EnvGet(e, EnvKeyTable[g][fld.name]) # <<>>
              /\ ~IsError(Parse(fld.type, EnvGet(e, EnvKeyTable[g][fld.name])[1]))
             THEN Parse(fld.type, EnvGet(e, EnvKeyTable[g][fld.name])[1])
             ELSE Validate(fld.type, Default(fld, cd))

\* one scalar field: an init keyword, else the environment, else the default
ResolveScalar(g, fld, kw, e, cd) ==
    IF fld.name \in DOMAIN kw
      THEN Validate(fld.type, kw[fld.name])
      ELSE IF EnvGet(e, EnvKeyTable[g][fld.name]) # <<>>
             THEN Parse(fld.type, EnvGet(e, EnvKeyTable[g][fld.name])[1])
             ELSE ValidateDefault(g, fld.type, Default(fld, cd))

\* the function f itself, each of its values computed a single time
Table(f) == f @@ <<>>

RECURSIVE BuildGroup(_, _, _, _)

\* as DefaultFactory, had the nested instance been made once when the module
\* was loaded and kept: the one the tree of the module holds
DefaultFactory_Memoized(g, e, cd) ==
    IF settings = NoInstance THEN BuildGroup(g, NoKwargs, e, cd)
    ELSE Built(GetAt(settings,
                     CHOOSE p \in PathTable["Settings"] :
                       ClassAt("Settings", p) = g))

\* Field(default_factory = g): the nested class called with no arguments, in
\* the environment of the call
DefaultFactory(g, e, cd) == BuildGroup(g, NoKwargs, e, cd)

\* g(**kw) in environment e: the fields in declaration order; a nested
\* constructor that raises ends the construction at once, and the scalar
\* fields that failed are raised together once every field was visited
BuildGroup(g, kw, e, cd) ==
    LET fs == FieldTable[g]
        idx == 1..Len(fs)
        nestedIdx == {i \in idx : fs[i].nested}
        sub == Table([i \in nestedIdx |-> DefaultFactory(fs[i].type, e, cd)])
        val == Table([i \in idx \ nestedIdx |->
                        ResolveScalar(g, fs[i], kw, e, cd)])
        failedSub == {i \in nestedIdx : ~sub[i].ok}
        failed == {i \in idx \ nestedIdx : IsError(val[i])}
        firstSub == CHOOSE i \in failedSub : \A j \in failedSub : i <= j
    IN  IF failedSub # {} THEN sub[firstSub]
        ELSE IF failed # {} THEN Raised(g, {fs[i].name : i \in failed})
        ELSE Built([cls |-> g,
                    vals |-> [n \in FieldNames(g) |->
                                IF FieldIndex[g][n] \in nestedIdx
                                  THEN sub[FieldIndex[g][n]].inst
                                  ELSE val[FieldIndex[g][n]]]])

(***************************************************************************)
(* The sentinel and the override-merge helper.                             *)
(***************************************************************************)
\* as NotSetType.__eq__, comparing by identity
NotSetType__eq__Identity(self, o) == o = self

\* NotSetType.__eq__(self, o): isinstance(o, NotSetType)
NotSetType__eq__(self, o) == isinstance(o, "NotSetType")

\* a != b: the left operand's __ne__ (which NotSetType inherits: the negation
\* of its __eq__), else the right operand's, else the built-in comparison
PyNe(a, b) ==
    IF isinstance(a, "NotSetType") THEN ~NotSetType__eq__(a, b)
    ELSE IF isinstance(b, "NotSetType") THEN ~NotSetType__eq__(b, a)
    ELSE a # b

\* whether Python takes v for true
Truthy(v) == v \notin {None, PyFalse, PyStr(""), PyInt("0")}

\* as drop_unset, keeping the values that are true instead of the values
\* that differ from NOTSET
drop_unset_Truthy(kwargs) ==
    [key \in {k \in DOMAIN kwargs :
                Truthy(kwargs[k]) /\ PyNe(kwargs[k], NOTSET)} |-> kwargs[key]]

\* {key: value for key, value in kwargs.items() if value != NOTSET}
drop_unset(kwargs) ==
    [key \in {k \in DOMAIN kwargs : PyNe(kwargs[k], NOTSET)} |-> kwargs[key]]

(***************************************************************************)
(* Secrets: pydantic's SecretStr, as the fields hold it.                   *)
(***************************************************************************)
\* str(v): the mask for a secret, the text of any other value
\* (the secrets of the model are nonempty)
Mask == "**********"
Str(v) == IF isinstance(v, "SecretStr") THEN Mask ELSE v[2]
\* v.get_secret_value()
get_secret_value(v) == v[2]

\* whether inst.f = v is refused: Config.frozen
Immutable(inst) == Config(inst.cls).frozen

(***************************************************************************)
(* Inputs.                                                                 *)
(***************************************************************************)
\* changes of the environment: a group, a field of it, and the string its
\* variable is set to. A path of the root, a boolean of the root that does
\* not parse, and in the nested groups a boolean and a number that parse or
\* do not, the secret, and an integer of the group declared without a Config
EnvInputs ==
    {<<"PrefectSettings", "home", "/home/u">>,
     <<"PrefectSettings", "debug_mode", "maybe">>,
     <<"DatabaseSettings", "echo", "true">>,
     <<"DatabaseSettings", "echo", "maybe">>,
     <<"DatabaseSettings", "timeout", "30">>,
     <<"DatabaseSettings", "timeout", "maybe">>,
     <<"DatabaseSettings", "connection_url", "postgresql://u:pw@db/orion">>,
     <<"APISettings", "port", "30">>}

\* the value a caller passes for a field of type t
OverrideValue(t) ==
    CASE t = "bool" -> PyTrue
      [] t = "int" -> PyInt("5")
      [] t \in {"float", "Optional[float]"} -> PyFloat("5.0")
      [] t = "timedelta" -> PyInt("60")
      [] t \in {"str", "Optional[str]"} -> PyStr("")
      [] t = "Path" -> PyPath("/tmp/p")
      [] t = "SecretStr" -> PyStr("postgresql://o:s3@h/db")

\* the fields callers override
OverrideFields == {"timeout", "connection_url", "port"}

\* keyword arguments for g: none, or one field given as a value or as the
\* sentinel
KwargInputs(g) ==
    {NoKwargs} \cup
    UNION {{n :> OverrideValue(FieldOf(g, n).type), n :> NOTSET} :
           n \in ScalarNames(g) \cap OverrideFields}

\* attribute assignments tried: a field and the value assigned
AssignInputs == {<<"timeout", PyFloat("5.0")>>, <<"port", PyInt("5")>>}

\* values handed to drop_unset and compared with NOTSET
Values == {NOTSET, OtherNotSet, None, PyStr(""), PyInt("0"), PyFalse,
           PyFloat("5.0")}
KwargKeys == {"timeout", "echo", "orion_host"}
Mappings == UNION {[d -> Values] : d \in SUBSET KwargKeys}

(***************************************************************************)
(* The state machine.                                                      *)
(***************************************************************************)
Ok == [kind |-> "ok", model |-> "", fields |-> {}]
Error(kind, g, fs) == [kind |-> kind, model |-> g, fields |-> fs]

Init ==
    /\ pc = "unloaded"
    /\ env = <<>>
    /\ envSets = 0
    /\ SharedSettings = NoInstance
    /\ classDefaults = NoDefaults
    /\ settings = NoInstance
    /\ settingsBuilds = 0
    /\ last = NoInstance
    /\ lastCall = [cls |-> "None", kwargs |-> NoKwargs]
    /\ lastOp = "Init"
    /\ result = Ok
    /\ dropIn = NoKwargs
    /\ dropOut = NoKwargs
    /\ eqArg = None
    /\ eqRes = FALSE

\* the process environment changes: os.environ[env_key(g, n)] = raw
SetEnv(g, n, raw) ==
    /\ envSets < MaxEnvSets
    /\ env' = [k \in DOMAIN env \cup {EnvKeyTable[g][n]} |->
                 IF k = EnvKeyTable[g][n] THEN raw ELSE env[k]]
    /\ envSets' = envSets + 1
    /\ lastOp' = "SetEnv"
    /\ result' = Ok
    /\ UNCHANGED <<pc, SharedSettings, classDefaults, settings, settingsBuilds,
                   last, lastCall>>
    /\ UNCHANGED helperVars

\* import prefect.utilities.settings: the module body runs once, top to
\* bottom; an exception leaves the module unimported
LoadModule ==
    /\ pc = "unloaded"
    /\ LET shared == BuildGroup("PrefectSettings", NoKwargs, env, NoDefaults)
           cd == ClassBodyDefaults(shared.inst)
           tree == BuildGroup("Settings", NoKwargs, env, cd)
           raised == IF ~shared.ok THEN shared ELSE tree
       IN  IF ~raised.ok
             THEN /\ pc' = "import_error"
                  /\ result' = Error("ValidationError", raised.err.model,
                                     raised.err.fields)
                  /\ UNCHANGED <<SharedSettings, classDefaults, settings,
                                 settingsBuilds>>
             ELSE /\ pc' = "loaded"
                  /\ SharedSettings' = shared.inst
                  /\ classDefaults' = cd
                  /\ settings' = tree.inst
                  /\ settingsBuilds' = settingsBuilds + 1
                  /\ result' = Ok
    /\ lastOp' = "LoadModule"
    /\ UNCHANGED <<env, envSets, last, lastCall>>
    /\ UNCHANGED helperVars

\* as GetSettings, had the attribute been built on access
GetSettings_Rebuild ==
    /\ pc = "loaded"
    /\ settings' = BuildGroup("Settings", NoKwargs, env, classDefaults).inst
    /\ settingsBuilds' = settingsBuilds + 1
    /\ lastOp' = "GetSettings"
    /\ result' = Ok
    /\ UNCHANGED <<pc, env, envSets, SharedSettings, classDefaults, last, lastCall>>
    /\ UNCHANGED helperVars

\* a caller reads the module attribute settings
GetSettings ==
    /\ pc = "loaded"
    /\ lastOp' = "GetSettings"
    /\ result' = Ok
    /\ UNCHANGED moduleVars
    /\ UNCHANGED helperVars

\* a caller constructs a group with optional overrides:
\* g(**drop_unset(**kwargs))
Construct(g, kwargs) ==
    /\ pc = "loaded"
    /\ LET r == BuildGroup(g, drop_unset(kwargs), env, classDefaults)
       IN  /\ last' = r.inst
           /\ result' = IF r.ok THEN Ok
                        ELSE Error("ValidationError", r.err.model, r.err.fields)
    /\ lastCall' = [cls |-> g, kwargs |-> kwargs]
    /\ lastOp' = "Construct"
    /\ UNCHANGED <<pc, env, envSets, SharedSettings, classDefaults, settings,
                   settingsBuilds>>
    /\ UNCHANGED helperVars

\* the instances a caller holds
Held(target) ==
    CASE target = "SharedSettings" -> SharedSettings
      [] target = "settings" -> settings
      [] target = "last" -> last

\* a caller assigns <held instance>.<path>.f = v
SetAttr(target, p, f, v) ==
    /\ pc = "loaded"
    /\ Held(target) # NoInstance
    /\ p \in PathTable[Held(target).cls]
    /\ f \in DOMAIN GetAt(Held(target), p).vals
    /\ LET inst == GetAt(Held(target), p)
           new == IF Immutable(inst) THEN Held(target)
                  ELSE SetAt(Held(target), p, f, v)
       IN  /\ result' = IF Immutable(inst)
                          THEN Error("TypeError", inst.cls, {f})
                          ELSE Ok
           /\ SharedSettings' = IF target = "SharedSettings" THEN new
                                ELSE SharedSettings
           /\ settings' = IF target = "settings" THEN new ELSE settings
           /\ last' = IF target = "last" THEN new ELSE last
    /\ lastOp' = "SetAttr"
    /\ UNCHANGED <<pc, env, envSets, classDefaults, settingsBuilds, lastCall>>
    /\ UNCHANGED helperVars

Next ==
    \/ \E i \in EnvInputs : SetEnv(i[1], i[2], i[3])
    \/ LoadModule
    \/ GetSettings
    \/ \E g \in Groups : \E kwargs \in KwargInputs(g) : Construct(g, kwargs)
    \/ \E target \in {"SharedSettings", "settings", "last"} :
         \E p \in PathTable["Settings"] : \E a \in AssignInputs :
           SetAttr(target, p, a[1], a[2])

Spec == Init /\ [][Next]_vars

(***************************************************************************)
(* The helpers alone, on mappings and values a caller supplies.            *)
(***************************************************************************)
\* drop_unset(**kwargs)
CallDropUnset(kwargs) ==
    /\ dropIn' = kwargs
    /\ dropOut' = drop_unset(kwargs)
    /\ lastOp' = "drop_unset"
    /\ result' = Ok
    /\ UNCHANGED <<eqArg, eqRes>>
    /\ UNCHANGED moduleVars

\* NOTSET == x
CompareNotSet(x) ==
    /\ eqArg' = x
    /\ eqRes' = NotSetType__eq__(NOTSET, x)
    /\ lastOp' = "NOTSET =="
    /\ result' = Ok
    /\ UNCHANGED <<dropIn, dropOut>>
    /\ UNCHANGED moduleVars

NextHelpers ==
    \/ \E kwargs \in Mappings : CallDropUnset(kwargs)
    \/ \E x \in Values : CompareNotSet(x)

SpecHelpers == Init /\ [][NextHelpers]_vars

(***************************************************************************)
(* Properties.                                                             *)
(***************************************************************************)
\* the names of the instances a caller holds
Targets == {"SharedSettings", "settings", "last"}
HeldTargets == {t \in Targets : Held(t) # NoInstance}

\* the keywords that reach the constructor of the last call
LastKw == drop_unset(lastCall.kwargs)

\* whether the variable of field n of class g is set in the environment
EnvSet(g, n) == env_key(g, n) \in DOMAIN env

\* what the claimed order of precedence gives field n of the group at path p
\* of the tree of the last call
Precedence(p, n) ==
    LET g == ClassAt(lastCall.cls, p)
        fld == FieldOf(g, n)
    IN  IF /\ p = <<>>
           /\ n \in DOMAIN lastCall.kwargs
           /\ lastCall.kwargs[n] # NOTSET
          THEN Validate(fld.type, lastCall.kwargs[n])
          ELSE IF EnvSet(g, n) THEN Parse(fld.type, env[env_key(g, n)])
          ELSE Validate(fld.type, Default(fld, classDefaults))

\* C1: a constructed group holds, for every scalar field of it and of the
\* groups nested in it, the override when one that is not the sentinel was
\* passed, else the parsed environment variable prefix + NAME when it is set,
\* else the declared default; the database timeout set to "30" resolves to
\* the float 30.0.
C1_Precedence ==
    (lastOp = "Construct" /\ result = Ok) =>
      /\ \A p \in PathTable[lastCall.cls] :
           \A n \in ScalarNames(ClassAt(lastCall.cls, p)) :
             GetAt(last, p).vals[n] = Precedence(p, n)
      /\ ( /\ lastCall.cls = "DatabaseSettings"
           /\ "timeout" \notin DOMAIN LastKw
           /\ "PREFECT_ORION_DATABASE_TIMEOUT" \in DOMAIN env
           /\ env["PREFECT_ORION_DATABASE_TIMEOUT"] = "30" )
         => last.vals["timeout"] = <<"float", "30.0">>

\* C1 witness: the database group constructed without overrides while its
\* timeout variable is "30"
C1_Witness ==
    /\ lastOp = "Construct" /\ result = Ok
    /\ lastCall.cls = "DatabaseSettings" /\ lastCall.kwargs = NoKwargs
    /\ "PREFECT_ORION_DATABASE_TIMEOUT" \in DOMAIN env
    /\ env["PREFECT_ORION_DATABASE_TIMEOUT"] = "30"
    /\ last.vals["timeout"] = <<"float", "30.0">>

\* the pieces of text the mask contains
MaskSubstrings ==
    {"", "*", "**", "***", "****", "*****", "******", "*******", "********",
     "*********", "**********"}

\* the places of the groups of class g in the trees held: the name of a tree
\* and a path in it
PlacesOf(g) ==
    UNION {{<<t, p>> : p \in {q \in PathTable[Held(t).cls] :
                                ClassAt(Held(t).cls, q) = g}} :
           t \in HeldTargets}

Unparsable ==
    UNION {{<<p, n>> : n \in {m \in ScalarNames(ClassAt(lastCall.cls, p)) :
                               /\ ~(p = <<>> /\ m \in DOMAIN LastKw)
                               /\ EnvSet(ClassAt(lastCall.cls, p), m)
                               /\ IsError(Parse(
                                    FieldOf(ClassAt(lastCall.cls, p), m).type,
                                    env[env_key(ClassAt(lastCall.cls, p), m)]))}} :
           p \in PathTable[lastCall.cls]}

\* the same for the module's own two constructions, of the environment env
UnparsableAtLoad ==
    UNION {{<<p, n>> : n \in {m \in ScalarNames(ClassAt("Settings", p)) :
                               /\ EnvSet(ClassAt("Settings", p), m)
                               /\ IsError(Parse(
                                    FieldOf(ClassAt("Settings", p), m).type,
                                    env[env_key(ClassAt("Settings", p), m)]))}} :
           p \in PathTable["Settings"]}

\* C5: a construction in whose tree (at any depth) the environment variable of
\* a typed field does not parse raises a validation error that names such a
\* field of its group and yields no instance; an instance is produced only
\* when every variable set parses, and then holds the parsed values. The
\* same holds of the module's own construction of the tree.
C5_FailFast ==
    /\ lastOp = "Construct" =>
         /\ Unparsable # {} =>
              /\ result.kind = "ValidationError"
              /\ last = NoInstance
              /\ \E pn \in Unparsable :
                   /\ result.model = ClassAt(lastCall.cls, pn[1])
                   /\ pn[2] \in result.fields
         /\ last # NoInstance =>
              /\ result = Ok
              /\ Unparsable = {}
              /\ \A p \in PathTable[lastCall.cls] :
                   \A n \in ScalarNames(ClassAt(lastCall.cls, p)) :
                     (EnvSet(ClassAt(lastCall.cls, p), n)
                        /\ ~(p = <<>> /\ n \in DOMAIN LastKw)) =>
                       GetAt(last, p).vals[n] =
                         Parse(FieldOf(ClassAt(lastCall.cls, p), n).type,
                               env[env_key(ClassAt(lastCall.cls, p), n)])
    /\ lastOp = "LoadModule" =>
         /\ UnparsableAtLoad # {} =>
              /\ pc = "import_error"
              /\ result.kind = "ValidationError"
              /\ settings = NoInstance
              /\ \E pn \in UnparsableAtLoad : pn[2] \in result.fields
         /\ settings # NoInstance => UnparsableAtLoad = {}

\* C5 witness: the root tree is constructed while the database group's echo
\* variable is "maybe": a validation error naming echo, and no tree
C5_Witness ==
    /\ lastOp = "Construct" /\ lastCall.cls = "Settings"
    /\ "PREFECT_ORION_DATABASE_ECHO" \in DOMAIN env
    /\ env["PREFECT_ORION_DATABASE_ECHO"] = "maybe"
    /\ result = Error("ValidationError", "DatabaseSettings", {"echo"})
    /\ last = NoInstance

\* what the environment env and the defaults give field n of class g
FromEnvironment(g, n) ==
    IF EnvSet(g, n) THEN Parse(FieldOf(g, n).type, env[env_key(g, n)])
    ELSE Validate(FieldOf(g, n).type, Default(FieldOf(g, n), classDefaults))

\* every group nested in tree t of class g is resolved against env
NestedFresh(t, g) ==
    \A p \in PathTable[g] \ {<<>>} :
      \A n \in ScalarNames(ClassAt(g, p)) :
        GetAt(t, p).vals[n] = FromEnvironment(ClassAt(g, p), n)

\* C6 (state part): right after a parent group is constructed, by a caller or
\* by the module, each group nested in it is resolved against the environment
\* of that moment.
C6_FreshNested ==
    /\ (lastOp = "Construct" /\ result = Ok) => NestedFresh(last, lastCall.cls)
    /\ (lastOp = "LoadModule" /\ pc = "loaded") => NestedFresh(settings, "Settings")

\* C6 (step part): a change of the environment leaves every instance made
\* before it as it was, and a construction leaves the earlier tree alone.
C6_EarlierUnaffected ==
    /\ lastOp' = "SetEnv" =>
         (settings' = settings /\ last' = last /\ SharedSettings' = SharedSettings)
    /\ lastOp' = "Construct" =>
         (settings' = settings /\ SharedSettings' = SharedSettings)

\* C6: each construction of a parent invokes the factories of its nested
\* groups then, against the environment of that moment: two constructions
\* around a change of a nested group's variable give nested groups that differ
\* accordingly, and the first is unaffected by the change.
C6_NestedLaziness == [](C6_FreshNested) /\ [][C6_EarlierUnaffected]_vars

\* C6 witness: the tree the module built before the database timeout was set
\* to "30" still holds the default, and a tree built after holds 30.0
C6_Witness ==
    /\ lastOp = "Construct" /\ result = Ok /\ lastCall.cls = "Settings"
    /\ env = [k \in {"PREFECT_ORION_DATABASE_TIMEOUT"} |-> "30"]
    /\ GetAt(settings, <<"orion", "database">>).vals["timeout"] = <<"float", "1.0">>
    /\ GetAt(last, <<"orion", "database">>).vals["timeout"] = <<"float", "30.0">>


\* the home the shared group resolves in the environment env
CurrentHome ==
    IF "PREFECT_HOME" \in DOMAIN env THEN env["PREFECT_HOME"]
    ELSE expanduser("~/.prefect")

\* C3: a group constructed with no environment variable and no override for
\* its derived field holds the value computed from the shared home current at
\* that construction, not one captured when the module was loaded: the
\* database connection_url and the logging settings_path follow a change of
\* the home made between the load and the construction.
C3_LazyDerivedDefault ==
    (lastOp = "Construct" /\ result = Ok) =>
      \A p \in PathTable[lastCall.cls] :
        /\ ( /\ ClassAt(lastCall.cls, p) = "DatabaseSettings"
             /\ ~EnvSet("DatabaseSettings", "connection_url")
             /\ ~(p = <<>> /\ "connection_url" \in DOMAIN LastKw) )
           => get_secret_value(GetAt(last, p).vals["connection_url"]) =
                "sqlite+aiosqlite:////" \o CurrentHome \o "/orion.db"
        /\ ( /\ ClassAt(lastCall.cls, p) = "LoggingSettings"
             /\ ~EnvSet("LoggingSettings", "settings_path") )
           => GetAt(last, p).vals["settings_path"] =
                PyPath(CurrentHome \o "/logging.yml")

\* C9 as claimed: loading the module constructs no singleton; it is made on
\* the first access, once.
C9_LazyOnFirstAccess ==
    /\ lastOp = "LoadModule" => (settings = NoInstance /\ settingsBuilds = 0)
    /\ lastOp = "GetSettings" => (settings # NoInstance /\ settingsBuilds = 1)
    /\ settingsBuilds <= 1

\* C9 (state part): the singleton exists exactly when the module is loaded,
\* and was constructed once by the load itself.
C9_BuiltByLoad ==
    /\ pc = "loaded" => (settings # NoInstance /\ settingsBuilds = 1)
    /\ pc # "loaded" => (settings = NoInstance /\ settingsBuilds = 0)
    /\ (lastOp = "LoadModule" /\ pc = "loaded") => settingsBuilds = 1

\* C9 (step part): once the module is loaded no step constructs the singleton
\* again, and only an assignment to one of its attributes changes what the
\* name settings holds.
C9_NeverRebuilt ==
    pc = "loaded" =>
      /\ settingsBuilds' = settingsBuilds
      /\ lastOp' # "SetAttr" => settings' = settings

\* C9 as amended: the singleton is constructed exactly once per process, by
\* loading the module (before any access), and is never rebuilt or replaced
\* afterwards.
C9_EagerSingleton == [](C9_BuiltByLoad) /\ [][C9_NeverRebuilt]_vars

\* C9 witness: the singleton is read after the environment changed since the
\* load; it is the tree the load built
C9_Witness ==
    /\ lastOp = "GetSettings"
    /\ env # <<>>
    /\ settingsBuilds = 1
    /\ settings # NoInstance
    /\ settings.vals["home"] = PyPath(expanduser("~/.prefect"))

\* C2: an attempted reassignment of a field of any group instance is rejected
\* with an immutability error and leaves every instance as it was.
C2_Immutable ==
    [][lastOp' = "SetAttr" =>
         /\ result'.kind = "TypeError"
         /\ settings' = settings
         /\ last' = last
         /\ SharedSettings' = SharedSettings]_vars

\* the classes whose instances are the root of the tree or the shared group
RootGroups == {"PrefectSettings", "Settings"}

\* the groups with a field whose environment variable is named k
ReadersOf(k) == {g \in Groups : \E n \in FieldNames(g) : env_key(g, n) = k}

\* C7: every environment variable that is set is the env_key (prefix +
\* uppercased name) of the fields of at most one group, so that it feeds at
\* most one group's field, and only the root/shared group reads a variable
\* through an empty prefix.
C7_EnvKeysUnique ==
    \A k \in DOMAIN env :
      /\ Cardinality(ReadersOf(k)) <= 1
      /\ \A g \in ReadersOf(k) : Config(g).env_prefix = "" => g \in RootGroups

\* whether every value of the mapping is a real value or NOTSET itself
RealOrNotSet(kwargs) ==
    \A k \in DOMAIN kwargs : kwargs[k] = NOTSET \/ ~isinstance(kwargs[k], "NotSetType")

\* C8: for a mapping of real values and the sentinel, drop_unset returns the
\* entries whose value is not the sentinel, under their keys and with their
\* values; None, "", 0 and False are kept, and the sentinel never remains.
C8_DropUnset ==
    RealOrNotSet(dropIn) =>
      /\ DOMAIN dropOut = {k \in DOMAIN dropIn : dropIn[k] # NOTSET}
      /\ \A k \in DOMAIN dropOut : dropOut[k] = dropIn[k] /\ dropOut[k] # NOTSET

\* C8 witness: a mapping of the sentinel, False and None went through
C8_Witness ==
    /\ lastOp = "drop_unset"
    /\ dropIn = [k \in KwargKeys |->
                   IF k = "timeout" THEN NOTSET
                   ELSE IF k = "echo" THEN PyFalse ELSE None]
    /\ dropOut = [k \in {"echo", "orion_host"} |->
                    IF k = "echo" THEN PyFalse ELSE None]

\* C10 as claimed: NOTSET == x holds exactly when x is NOTSET itself.
C10_EqualOnlyToItself ==
    lastOp = "NOTSET ==" => (eqRes <=> eqArg = NOTSET)

\* C10 as amended: NOTSET == x holds exactly when x is an instance of
\* NotSetType, NOTSET or another; None, "", 0 and False are not equal to it.
C10_EqualToItsType ==
    lastOp = "NOTSET ==" =>
      /\ eqRes <=> eqArg \in {NOTSET, OtherNotSet}
      /\ eqArg \in {None, PyStr(""), PyInt("0"), PyFalse} => ~eqRes

\* C10 witness: another instance of NotSetType compared equal to NOTSET
C10_Witness ==
    lastOp = "NOTSET ==" /\ eqArg = OtherNotSet /\ eqArg # NOTSET /\ eqRes

=============================================================================
